---- MODULE Spec2Model ----
(***************************************************************************)
(* A model of gamehack_librs: the name normaliser (types.rs), the masked   *)
(* byte comparison and the signature scanner (utils.rs), and the process   *)
(* locator, the pointer-chain reader and the raw writer (lib.rs).          *)
(*                                                                         *)
(* Strings and buffers are sequences of byte values.  The Win32 calls the  *)
(* library makes are the environment: each call's outcome is drawn from    *)
(* the outcomes the call can have.                                         *)
(***************************************************************************)
EXTENDS Integers, Sequences, FiniteSets, TLC

VARIABLES
    \* ---- to_string_lowercase (types.rs) -------------------------------
    nm_pc,         \* "call" before the normaliser has run, "done" after
    nm_buf,        \* the byte slice the normaliser is applied to
    nm_res,        \* its result
    \* ---- data_compare (utils.rs) --------------------------------------
    dc_pc,         \* "call" before data_compare has run, "done" after
    dc_data,       \* data: &[u8]
    dc_sign,       \* sign: &[u8]
    dc_mask,       \* mask: &str, a sequence of characters
    dc_res,        \* the returned bool
    \* ---- read (lib.rs) ------------------------------------------------
    rd_pc,         \* "base", "loop", "write", "done"
    rd_mem,        \* target process: the machine word stored at each address
    rd_addr,       \* addr: usize
    rd_offsets,    \* offsets: &[u32]
    rd_i,          \* position of the for loop in offsets
    next_addr,     \* the local next_addr
    rd_buffer,     \* the caller's *buffer
    rd_allok,      \* every ReadProcessMemory so far succeeded
    \* ---- write (lib.rs) -----------------------------------------------
    wr_pc,         \* "call", "done"
    wr_tmem,       \* target process: the byte stored at each address
    wr_tmem0,      \* the target's bytes before the call
    wr_addr,       \* addr: usize
    wr_value,      \* the bytes of the referent of value (size_of::<T>() of them)
    wr_ref,        \* the bytes of the reference `value` itself, a pointer
    wr_stack,      \* the caller's bytes that follow the local `value`
    wr_ok,         \* WriteProcessMemory succeeded
    \* ---- find_process, process_modules, close_handle -------------------
    fp_pc,         \* "start", "loop", "done"
    process_name,  \* process_name: &str
    pid_list,      \* the identifiers EnumProcesses stored; limit is its length
    fp_i,          \* position of the for loop in pid_list
    process_data,  \* the ProcessData being filled: handle, id, module_list
    fp_result,     \* "Ok" or "ProcessNotFound" once returned
    handle_table,  \* the handles OpenProcess has issued: handle h is entry h
    fp_mods,       \* what the last call of process_modules enumerated
    open_failed,   \* the identifiers OpenProcess refused
    enum_calls,    \* how often EnumProcesses was called
    \* ---- find_signature (utils.rs) ------------------------------------
    fs_pc,         \* "loop", "done"
    page_attr,     \* target process: the allocation state of each page
    fs_mem,        \* target process: the byte at each address, NoByte where none
    overflow_checks, \* the build panics on integer overflow (debug) or wraps
    fs_base,       \* base: usize
    fs_size,       \* size: usize
    fs_sign,       \* sign: &[u8]
    fs_mask,       \* mask: &str
    mbi,           \* the MEMORY_BASIC_INFORMATION the queries fill
    fs_offset,     \* the scan cursor `offset`
    fs_iters,      \* how many iterations of the while loop have run
    copy_failed,   \* some ReadProcessMemory of the scan failed
    fs_result      \* Ok(address), SignatureNotFound, or a panic

nmVars == <<nm_pc, nm_buf, nm_res>>
dcVars == <<dc_pc, dc_data, dc_sign, dc_mask, dc_res>>
rdVars == <<rd_pc, rd_mem, rd_addr, rd_offsets, rd_i, next_addr, rd_buffer, rd_allok>>
wrVars == <<wr_pc, wr_tmem, wr_tmem0, wr_addr, wr_value, wr_ref, wr_stack, wr_ok>>
fpVars == <<fp_pc, process_name, pid_list, fp_i, process_data, fp_result,
            handle_table, fp_mods, open_failed, enum_calls>>
fsVars == <<fs_pc, page_attr, fs_mem, overflow_checks, fs_base, fs_size, fs_sign,
            fs_mask, mbi, fs_offset, fs_iters, copy_failed, fs_result>>
vars == <<nmVars, dcVars, rdVars, wrVars, fpVars, fsVars>>

\* what each operation leaves alone: the state of the other operations
nmRest == <<dcVars, rdVars, wrVars, fpVars, fsVars>>
dcRest == <<nmVars, rdVars, wrVars, fpVars, fsVars>>
rdRest == <<nmVars, dcVars, wrVars, fpVars, fsVars>>
wrRest == <<nmVars, dcVars, rdVars, fpVars, fsVars>>
fpRest == <<nmVars, dcVars, rdVars, wrVars, fsVars>>
fsRest == <<nmVars, dcVars, rdVars, wrVars, fpVars>>

\* ------------------------------------------------------------------------
\* Bounds of the model
\* ------------------------------------------------------------------------
\* longest name buffer handed to the normaliser
MaxBuf == 3
\* longest data, sign and mask handed to data_compare
MaxLen == 2
\* longest offsets slice handed to read
MaxOffsets == 2
\* largest size_of::<T>() handed to write, in bytes
MaxT == 3
\* largest process identifier of the system
MaxPid == 2
\* most modules EnumProcessModules reports for one process
MaxMods == 2
\* largest size handed to find_signature
MaxSize == 5

RECURSIVE SeqsUpTo(_, _)
SeqsUpTo(S, n) ==
    IF n = 0 THEN {<<>>}
    ELSE LET shorter == SeqsUpTo(S, n - 1)
         IN shorter \cup {Append(s, x) : s \in {t \in shorter : Len(t) = n - 1}, x \in S}

\* ------------------------------------------------------------------------
\* Name normaliser: <[u8] as TransformName>::to_string_lowercase
\* ------------------------------------------------------------------------
\* byte values the buffers are built from: NUL, 'A', 'a', the two-byte
\* sequences C3 89 (U+00C9) and C3 A9 (U+00E9), and FF (never valid)
NameBytes == {0, 65, 97, 137, 169, 195, 255}

\* position of the first NUL of buf, 0 when there is none
FirstNul(buf) ==
    IF \E i \in 1..Len(buf) : buf[i] = 0
    THEN CHOOSE i \in 1..Len(buf) : buf[i] = 0 /\ \A j \in 1..(i - 1) : buf[j] # 0
    ELSE 0

IsCont(b) == b >= 128 /\ b <= 191

\* core::str::from_utf8: width of the sequence a lead byte starts, 0 when
\* the byte cannot start one
Utf8Width(b) ==
    IF b < 128 THEN 1
    ELSE IF b >= 194 /\ b <= 223 THEN 2
    ELSE IF b >= 224 /\ b <= 239 THEN 3
    ELSE IF b >= 240 /\ b <= 244 THEN 4
    ELSE 0

\* the second byte of a 3- or 4-byte sequence is restricted by the lead byte
SecondOk(first, second) ==
    CASE first = 224 -> second >= 160 /\ second <= 191
      [] first = 237 -> second >= 128 /\ second <= 159
      [] first = 240 -> second >= 144 /\ second <= 191
      [] first = 244 -> second >= 128 /\ second <= 143
      [] OTHER -> IsCont(second)

RECURSIVE ValidUtf8From(_, _)
ValidUtf8From(s, i) ==
    IF i > Len(s) THEN TRUE
    ELSE LET w == Utf8Width(s[i])
         IN /\ w # 0
            /\ i + w - 1 <= Len(s)
            /\ (w >= 2 => SecondOk(s[i], s[i + 1]))
            /\ \A k \in (i + 2)..(i + w - 1) : IsCont(s[k])
            /\ ValidUtf8From(s, i + w)

\* CStr::to_str
ValidUtf8(s) == ValidUtf8From(s, 1)

\* u8::to_ascii_lowercase
AsciiLowerByte(b) == IF b >= 65 /\ b <= 90 THEN b + 32 ELSE b

\* str::to_ascii_lowercase
to_ascii_lowercase(s) == [i \in 1..Len(s) |-> AsciiLowerByte(s[i])]

\* a lowercase fold that also folds the Latin-1 letters (str::to_lowercase
\* on the alphabet of the model): not what the library does
to_unicode_lowercase(s) ==
    [i \in 1..Len(s) |->
        IF i > 1 /\ s[i - 1] = 195 /\ s[i] >= 128 /\ s[i] <= 158
        THEN s[i] + 32 ELSE AsciiLowerByte(s[i])]

Lowercase(s) == to_ascii_lowercase(s)

\* the bytes the CStr covers: those before the first NUL
UntilNul(buf) == SubSeq(buf, 1, FirstNul(buf) - 1)

CStrBytes(buf) == UntilNul(buf)

NameOk(s) == [tag |-> "Ok", val |-> s]
NameErr(e) == [tag |-> e, val |-> <<>>]

to_string_lowercase(buf) ==
    IF FirstNul(buf) = 0 THEN NameErr("NoNulByte")
    ELSE IF ~ValidUtf8(CStrBytes(buf)) THEN NameErr("InvalidUtf8")
    ELSE NameOk(Lowercase(CStrBytes(buf)))

NmInit ==
    /\ nm_pc = "call"
    /\ nm_buf \in SeqsUpTo(NameBytes, MaxBuf)
    /\ nm_res = NameErr("none")

Normalize ==
    /\ nm_pc = "call"
    /\ nm_pc' = "done"
    /\ nm_res' = to_string_lowercase(nm_buf)
    /\ UNCHANGED <<nm_buf, nmRest>>

\* ------------------------------------------------------------------------
\* data_compare
\* ------------------------------------------------------------------------
DataBytes == {0, 1}
\* 'x' flags an exact position; '?' and U+00E9 (two bytes in UTF-8) stand
\* for every other character
MaskChars == {"x", "?", "e9"}

CharWidth(c) == IF c = "e9" THEN 2 ELSE 1

\* str::len: the length of the mask in bytes
RECURSIVE StrLen(_)
StrLen(mask) ==
    IF mask = <<>> THEN 0 ELSE CharWidth(Head(mask)) + StrLen(Tail(mask))

IsExact(c) == c = "x"
\* a comparison that treats '?' as the exact flag
IsExactSwapped(c) == c = "?"

ExactFlag(c) == IsExact(c)

LengthsOk(data, sign, mask) ==
    ~(Len(data) < StrLen(mask) \/ Len(sign) < StrLen(mask))

data_compare(data, sign, mask) ==
    IF ~LengthsOk(data, sign, mask) THEN FALSE
    ELSE \A idx \in 1..Len(mask) : ~ExactFlag(mask[idx]) \/ data[idx] = sign[idx]

DcInit ==
    /\ dc_data \in SeqsUpTo(DataBytes, MaxLen)
    /\ dc_sign \in SeqsUpTo(DataBytes, MaxLen)
    /\ dc_mask \in SeqsUpTo(MaskChars, MaxLen)
    /\ dc_pc = "call"
    /\ dc_res = FALSE

Compare ==
    /\ dc_pc = "call"
    /\ dc_pc' = "done"
    /\ dc_res' = data_compare(dc_data, dc_sign, dc_mask)
    /\ UNCHANGED <<dc_data, dc_sign, dc_mask, dcRest>>

\* ------------------------------------------------------------------------
\* read: the pointer chain
\* ------------------------------------------------------------------------
\* usize, scaled down: addresses and machine words are 0..(WordMod - 1)
WordMod == 4
Word == 0..(WordMod - 1)
\* the u32 offsets, each widened to usize
Offsets == {0, 1, WordMod - 1}

\* usize::wrapping_add
wrapping_add(a, b) == (a + b) % WordMod
\* an addition that saturates at usize::MAX instead of wrapping
saturating_add(a, b) == IF a + b >= WordMod THEN WordMod - 1 ELSE a + b

\* the address of the read inside the loop
ChainAddress(next, offset) == wrapping_add(next, offset)

RdInit ==
    /\ rd_pc = "base"
    /\ rd_mem \in [Word -> Word]
    /\ rd_addr \in Word
    /\ rd_offsets \in SeqsUpTo(Offsets, MaxOffsets)
    /\ rd_i = 1
    /\ next_addr = 0
    /\ rd_buffer = 0
    /\ rd_allok = TRUE

\* ReadProcessMemory(handle, addr, &mut next_addr, size_of::<usize>()); its
\* result is ignored, and a failed read leaves next_addr as it was
ReadBase ==
    /\ rd_pc = "base"
    /\ rd_pc' = "loop"
    /\ \/ next_addr' = rd_mem[rd_addr] /\ UNCHANGED rd_allok
       \/ rd_allok' = FALSE /\ UNCHANGED next_addr
    /\ UNCHANGED <<rd_mem, rd_addr, rd_offsets, rd_i, rd_buffer, rdRest>>

\* one iteration of `for &offset in offsets`
ReadOffset ==
    /\ rd_pc = "loop"
    /\ rd_i <= Len(rd_offsets)
    /\ rd_i' = rd_i + 1
    /\ \/ next_addr' = rd_mem[ChainAddress(next_addr, rd_offsets[rd_i])]
          /\ UNCHANGED rd_allok
       \/ rd_allok' = FALSE /\ UNCHANGED next_addr
    /\ UNCHANGED <<rd_pc, rd_mem, rd_addr, rd_offsets, rd_buffer, rdRest>>

\* ptr::write(buffer.cast(), next_addr)
ReadStore ==
    /\ rd_pc = "loop"
    /\ rd_i > Len(rd_offsets)
    /\ rd_pc' = "done"
    /\ rd_buffer' = next_addr
    /\ UNCHANGED <<rd_mem, rd_addr, rd_offsets, rd_i, next_addr, rd_allok, rdRest>>

\* ------------------------------------------------------------------------
\* write: the raw writer
\* ------------------------------------------------------------------------
\* size_of::<&T>() in bytes, scaled down
PtrBytes == 2
\* the target's address space, in bytes
TargetAddr == 0..(WordMod - 1)

\* the lpBuffer argument, addr_of!(value).cast(): `value` is the parameter,
\* a &T, so this is the address of the reference.  The n bytes found there
\* are the reference's own bytes and then whatever the caller's memory holds
\* after it.
SourceOfReference(n) == SubSeq(wr_ref \o wr_stack, 1, n)
WriteSource(n) == SourceOfReference(n)

\* the target after WriteProcessMemory has copied src to addr
Copied(mem, addr, src) ==
    [a \in TargetAddr |->
        IF a >= addr /\ a < addr + Len(src) THEN src[a - addr + 1] ELSE mem[a]]

WrInit ==
    /\ wr_pc = "call"
    /\ wr_tmem \in [TargetAddr -> DataBytes]
    /\ wr_tmem0 = wr_tmem
    /\ wr_addr \in TargetAddr
    /\ wr_value \in SeqsUpTo(DataBytes, MaxT) \ {<<>>}
    /\ wr_ref \in [1..PtrBytes -> DataBytes]
    /\ wr_stack \in [1..(MaxT - PtrBytes) -> DataBytes]
    /\ wr_ok = FALSE

\* WriteProcessMemory(handle, addr, addr_of!(value).cast(), size_of::<T>());
\* its result is ignored.  The call fails, writing nothing, when the range
\* is not wholly writable in the target.
Write ==
    /\ wr_pc = "call"
    /\ wr_pc' = "done"
    /\ \/ /\ wr_addr + Len(wr_value) <= WordMod
          /\ wr_tmem' = Copied(wr_tmem, wr_addr, WriteSource(Len(wr_value)))
          /\ wr_ok' = TRUE
       \/ UNCHANGED <<wr_tmem, wr_ok>>
    /\ UNCHANGED <<wr_tmem0, wr_addr, wr_value, wr_ref, wr_stack, wrRest>>

\* ------------------------------------------------------------------------
\* find_process, process_modules, get_process_handle, close_handle
\* ------------------------------------------------------------------------
\* "<Module Name>"
Sentinel == <<60, 77, 111, 100, 117, 108, 101, 32, 78, 97, 109, 101, 62>>

\* the names callers ask for: "", "a", "A" and "<Module Name>"
Targets == {<<>>, <<97>>, <<65>>, Sentinel}

\* what GetModuleBaseNameA can leave in the zeroed name buffer (scaled down
\* to two bytes): nothing (the call failed), "a", "A", a name that is not
\* UTF-8, and a name that fills the buffer and leaves no terminator
ExeNameBufs == {<<0, 0>>, <<97, 0>>, <<65, 0>>, <<255, 0>>, <<97, 97>>}
\* the same for the modules of a process: "k", "K", undecodable
ModNameBufs == {<<107, 0>>, <<75, 0>>, <<255, 0>>}

Pids == 0..MaxPid

\* the lists EnumProcesses can store: distinct identifiers, 0 (the idle
\* process) among them; the empty list also stands for a failed call
PidLists == {l \in SeqsUpTo(Pids, MaxPid + 1) :
                \A i, j \in 1..Len(l) : i # j => l[i] # l[j]}

\* HANDLE::default()
NullHandle == 0

\* .to_string_lowercase().unwrap_or("<Module Name>".to_string())
NameOrSentinel(buf) ==
    LET r == to_string_lowercase(buf)
    IN IF r.tag = "Ok" THEN r.val ELSE Sentinel

\* the right-hand side of the comparison: process_name.to_ascii_lowercase()
TargetVerbatim(name) == name
TargetKey(name) == to_ascii_lowercase(name)

NameMatches(buf, name) == NameOrSentinel(buf) = TargetKey(name)

\* what EnumProcessModules, GetModuleBaseNameA and GetModuleInformation
\* report for the process pid: its modules in enumeration order, each with
\* the name buffer and the load address (distinct across processes)
ModuleEnumerations(pid) ==
    {[k \in 1..Len(names) |->
        [name |-> names[k], addr |-> 10 * pid + k, size |-> k]] :
            names \in SeqsUpTo(ModNameBufs, MaxMods)}

\* HashMap::insert over the enumeration, in order: the key is the
\* normalised name, and a later insert replaces an earlier one
RECURSIVE InsertModules(_, _)
InsertModules(list, mods) ==
    IF mods = <<>> THEN list
    ELSE LET m == Head(mods)
             name == NameOrSentinel(m.name)
             entry == [module_name |-> name, module_addr |-> m.addr,
                       module_size |-> m.size]
             others == {e \in list : e.key # name}
         IN InsertModules(others \cup {[key |-> name, value |-> entry]}, Tail(mods))

\* process_modules(&mut process_data)
process_modules(data, mods) ==
    [data EXCEPT !.module_list = InsertModules(data.module_list, mods)]

FpInit ==
    /\ fp_pc = "start"
    /\ process_name \in Targets
    /\ pid_list = <<>>
    /\ fp_i = 1
    /\ process_data = [handle |-> NullHandle, id |-> 0, module_list |-> {}]
    /\ fp_result = "none"
    /\ handle_table = <<>>
    /\ fp_mods = <<>>
    /\ open_failed = {}
    /\ enum_calls = 0

\* EnumProcesses(pid_list, size_of_val(&pid_list), &mut cb_needed)
EnumerateProcesses ==
    /\ fp_pc = "start"
    /\ fp_pc' = "loop"
    /\ pid_list' \in PidLists
    /\ enum_calls' = enum_calls + 1
    /\ UNCHANGED <<process_name, fp_i, process_data, fp_result, handle_table,
                   fp_mods, open_failed, fpRest>>

\* .filter(|&&pid| pid != 0)
SkipZero ==
    /\ fp_pc = "loop"
    /\ fp_i <= Len(pid_list)
    /\ pid_list[fp_i] = 0
    /\ fp_i' = fp_i + 1
    /\ UNCHANGED <<fp_pc, process_name, pid_list, process_data, fp_result,
                   handle_table, fp_mods, open_failed, enum_calls, fpRest>>

\* .filter_map(|&pid| get_process_handle(pid).ok()...): OpenProcess failed
OpenFails ==
    /\ fp_pc = "loop"
    /\ fp_i <= Len(pid_list)
    /\ pid_list[fp_i] # 0
    /\ open_failed' = open_failed \cup {pid_list[fp_i]}
    /\ fp_i' = fp_i + 1
    /\ UNCHANGED <<fp_pc, process_name, pid_list, process_data, fp_result,
                   handle_table, fp_mods, enum_calls, fpRest>>

\* the loop body for an identifier OpenProcess opened: fetch the name,
\* compare, and on a match store handle and id and call process_modules
Visit ==
    /\ fp_pc = "loop"
    /\ fp_i <= Len(pid_list)
    /\ pid_list[fp_i] # 0
    /\ \E module_name \in ExeNameBufs :
          LET pid == pid_list[fp_i]
              handle == Len(handle_table) + 1
          IN /\ handle_table' = Append(handle_table,
                    [pid |-> pid, open |-> TRUE, closes |-> 0, name |-> module_name])
             /\ IF NameMatches(module_name, process_name)
                THEN \E mods \in ModuleEnumerations(pid) :
                        /\ fp_mods' = mods
                        /\ process_data' = process_modules(
                               [process_data EXCEPT !.handle = handle, !.id = pid], mods)
                ELSE UNCHANGED <<process_data, fp_mods>>
    /\ fp_i' = fp_i + 1
    /\ UNCHANGED <<fp_pc, process_name, pid_list, fp_result, open_failed, enum_calls, fpRest>>

\* if process_data.id == 0 { Err(ProcessNotFound) } else { Ok(process_data) }
Return ==
    /\ fp_pc = "loop"
    /\ fp_i > Len(pid_list)
    /\ fp_pc' = "done"
    /\ fp_result' = IF process_data.id = 0 THEN "ProcessNotFound" ELSE "Ok"
    /\ UNCHANGED <<process_name, pid_list, fp_i, process_data, handle_table,
                   fp_mods, open_failed, enum_calls, fpRest>>

\* CloseHandle
close_handle(table, handle) ==
    [table EXCEPT ![handle].open = FALSE, ![handle].closes = @ + 1]

\* the caller releases the handle of the record it was given, once
CallerCloses ==
    /\ fp_pc = "done"
    /\ fp_result = "Ok"
    /\ handle_table[process_data.handle].open
    /\ handle_table' = close_handle(handle_table, process_data.handle)
    /\ UNCHANGED <<fp_pc, process_name, pid_list, fp_i, process_data, fp_result,
                   fp_mods, open_failed, enum_calls, fpRest>>

\* ------------------------------------------------------------------------
\* find_signature
\* ------------------------------------------------------------------------
\* usize for the scanner, scaled down: addresses are 0..(ScanMod - 1)
ScanMod == 8
\* the page size of the target, scaled down
PageSize == 2
\* the pages of the target below the highest user address; the addresses
\* above them (the top page) belong to no region, and a query there fails
UserPages == 3
ScanAddr == 0..(ScanMod - 1)
UserAddr == 0..(UserPages * PageSize - 1)

\* a page is free, reserved (not free, not readable), or committed and
\* readable with one of two protections
PageAttrs == {"free", "reserve", "rw", "ro"}
Readable(attr) == attr \in {"rw", "ro"}
NoByte == -1

PageOf(a) == a \div PageSize

\* the signatures scanned for: an exact non-zero byte, an exact zero byte,
\* a wildcard alone, and two-byte patterns with and without a wildcard
Signatures ==
    { <<<<1>>, <<"x">>>>, <<<<0>>, <<"x">>>>, <<<<1>>, <<"?">>>>,
      <<<<1, 1>>, <<"x", "x">>>>, <<<<1, 0>>, <<"x", "?">>>> }

\* MEMORY_BASIC_INFORMATION::default()
DefaultMbi == [BaseAddress |-> 0, RegionSize |-> 0, State |-> "zero"]

\* the first page after p whose attributes differ from p's
RECURSIVE RunEnd(_, _)
RunEnd(attrs, p) ==
    IF p + 1 < UserPages /\ attrs[p + 1] = attrs[p] THEN RunEnd(attrs, p + 1) ELSE p + 1

\* VirtualQueryEx(handle, address, &mut mbi, ..): BaseAddress is the address
\* rounded down to its page, RegionSize runs from there to the end of the
\* pages that share its attributes.  The call fails above the user pages,
\* and a failed call leaves mbi as it was (its result is not looked at).
VirtualQueryEx(attrs, address, old) ==
    IF PageOf(address) >= UserPages THEN old
    ELSE LET p == PageOf(address)
         IN [BaseAddress |-> p * PageSize,
             RegionSize |-> (RunEnd(attrs, p) - p) * PageSize,
             State |-> IF attrs[p] = "free" THEN "MEM_FREE"
                       ELSE IF attrs[p] = "reserve" THEN "MEM_RESERVE"
                       ELSE "MEM_COMMIT"]

CanRead(attrs, a) == a \in UserAddr /\ Readable(attrs[PageOf(a)])

\* the number of bytes from address on that can be read, at most n
RECURSIVE ReadablePrefix(_, _, _)
ReadablePrefix(attrs, address, n) ==
    IF n = 0 \/ ~CanRead(attrs, address) THEN 0
    ELSE 1 + ReadablePrefix(attrs, address + 1, n - 1)

\* vec![0u8; region_size] after ReadProcessMemory(handle, address, buffer,
\* region_size): the target's bytes when the whole range can be read;
\* otherwise the call fails, and the buffer is still zero or holds the bytes
\* copied before the first one that could not be read
ReadProcessMemory(attrs, mem, address, n) ==
    LET k == ReadablePrefix(attrs, address, n)
        copied == [i \in 1..n |-> IF i <= k THEN mem[address + i - 1] ELSE 0]
    IN IF k = n THEN {copied} ELSE {[i \in 1..n |-> 0], copied}

\* buffer.windows(sign.len()).position(|w| data_compare(w, sign, mask)),
\* counted from 1; 0 for None
Position(buffer, sign, mask) ==
    LET n == Len(sign)
        hits == {k \in 1..(Len(buffer) - n + 1) :
                    data_compare(SubSeq(buffer, k, k + n - 1), sign, mask)}
    IN IF hits = {} THEN 0 ELSE CHOOSE k \in hits : \A j \in hits : k <= j

\* the base of the match address: mbi.BaseAddress
MatchBase(address, info) == info.BaseAddress
FsInit ==
    /\ fs_pc = "loop"
    /\ page_attr \in [0..(UserPages - 1) -> PageAttrs]
    /\ fs_mem \in [UserAddr -> {NoByte} \cup DataBytes]
    /\ \A a \in UserAddr : (fs_mem[a] # NoByte) <=> Readable(page_attr[PageOf(a)])
    /\ overflow_checks \in BOOLEAN
    /\ fs_base \in ScanAddr
    /\ fs_size \in 0..MaxSize
    /\ \E sig \in Signatures : fs_sign = sig[1] /\ fs_mask = sig[2]
    /\ mbi = DefaultMbi
    /\ fs_offset = 0
    /\ fs_iters = 0
    /\ copy_failed = FALSE
    /\ fs_result = [tag |-> "none", addr |-> 0]

\* the iterations the model follows a scan for: one more than a cursor
\* that advances on every iteration needs to reach the largest size
IterCap == MaxSize + 1

\* ReadProcessMemory cannot copy n bytes from address
CopyFails(attrs, address, n) == ReadablePrefix(attrs, address, n) # n

\* one iteration of `while offset < size` in a run without overflow, or in
\* a build where overflow wraps: query, copy the region if it is not free,
\* search the copy, return the match or advance by the region size
ScanRegion ==
    /\ fs_pc = "loop"
    /\ fs_offset < fs_size
    /\ fs_iters < IterCap
    /\ fs_iters' = fs_iters + 1
    /\ LET address == (fs_base + fs_offset) % ScanMod
           info == VirtualQueryEx(page_attr, address, mbi)
           advance == fs_offset + info.RegionSize
       IN /\ fs_base + fs_offset >= ScanMod => ~overflow_checks
          /\ mbi' = info
          /\ copy_failed' = (copy_failed \/ (info.State # "MEM_FREE"
                                /\ CopyFails(page_attr, address, info.RegionSize)))
          /\ \E buffer \in IF info.State # "MEM_FREE"
                           THEN ReadProcessMemory(page_attr, fs_mem, address, info.RegionSize)
                           ELSE {<<>>} :
                LET pos == Position(buffer, fs_sign, fs_mask)
                IN IF info.State # "MEM_FREE" /\ pos # 0
                   THEN /\ fs_pc' = "done"
                        /\ fs_result' = [tag |-> "Ok",
                               addr |-> (MatchBase(address, info) + pos - 1) % ScanMod]
                        /\ UNCHANGED fs_offset
                   ELSE /\ advance >= ScanMod => ~overflow_checks
                        /\ fs_offset' = advance % ScanMod
                        /\ UNCHANGED <<fs_pc, fs_result>>
    /\ UNCHANGED <<page_attr, fs_mem, overflow_checks, fs_base, fs_size, fs_sign,
                   fs_mask, fsRest>>

\* the same iteration in a build with overflow checks, when `base + offset`
\* or `offset += mbi.RegionSize` overflows: the thread panics
ScanOverflows ==
    /\ fs_pc = "loop"
    /\ fs_offset < fs_size
    /\ fs_iters < IterCap
    /\ fs_iters' = fs_iters + 1
    /\ overflow_checks
    /\ LET address == (fs_base + fs_offset) % ScanMod
           info == VirtualQueryEx(page_attr, address, mbi)
       IN \/ /\ fs_base + fs_offset >= ScanMod
             /\ UNCHANGED mbi
          \/ /\ fs_base + fs_offset < ScanMod
             /\ fs_offset + info.RegionSize >= ScanMod
             /\ \E buffer \in IF info.State # "MEM_FREE"
                              THEN ReadProcessMemory(page_attr, fs_mem, address, info.RegionSize)
                              ELSE {<<>>} :
                   info.State = "MEM_FREE" \/ Position(buffer, fs_sign, fs_mask) = 0
             /\ mbi' = info
    /\ fs_pc' = "done"
    /\ fs_result' = [tag |-> "panic", addr |-> 0]
    /\ UNCHANGED <<page_attr, fs_mem, overflow_checks, fs_base, fs_size, fs_sign,
                   fs_mask, fs_offset, copy_failed, fsRest>>

\* the cursor reached size: Err(Errors::SignatureNotFound)
ScanEnds ==
    /\ fs_pc = "loop"
    /\ fs_offset >= fs_size
    /\ fs_pc' = "done"
    /\ fs_result' = [tag |-> "SignatureNotFound", addr |-> 0]
    /\ UNCHANGED <<page_attr, fs_mem, overflow_checks, fs_base, fs_size, fs_sign,
                   fs_mask, mbi, fs_offset, fs_iters, copy_failed, fsRest>>

\* ------------------------------------------------------------------------
\* Specifications
\* ------------------------------------------------------------------------
NmIdle == nm_pc = "idle" /\ nm_buf = <<>> /\ nm_res = NameErr("none")
DcIdle ==
    /\ dc_pc = "idle"
    /\ dc_data = <<>> /\ dc_sign = <<>> /\ dc_mask = <<>> /\ dc_res = FALSE

RdIdle ==
    /\ rd_pc = "idle"
    /\ rd_mem = [a \in Word |-> 0] /\ rd_addr = 0 /\ rd_offsets = <<>> /\ rd_i = 1
    /\ next_addr = 0 /\ rd_buffer = 0 /\ rd_allok = TRUE
WrIdle ==
    /\ wr_pc = "idle"
    /\ wr_tmem = [a \in TargetAddr |-> 0] /\ wr_tmem0 = wr_tmem /\ wr_addr = 0
    /\ wr_value = <<>> /\ wr_ref = <<>> /\ wr_stack = <<>> /\ wr_ok = FALSE

FpIdle ==
    /\ fp_pc = "idle"
    /\ process_name = <<>> /\ pid_list = <<>> /\ fp_i = 1
    /\ process_data = [handle |-> NullHandle, id |-> 0, module_list |-> {}]
    /\ fp_result = "none" /\ handle_table = <<>> /\ fp_mods = <<>> /\ open_failed = {}
    /\ enum_calls = 0

FsIdle ==
    /\ fs_pc = "idle"
    /\ page_attr = [p \in 0..(UserPages - 1) |-> "free"]
    /\ fs_mem = [a \in UserAddr |-> NoByte]
    /\ overflow_checks = FALSE
    /\ fs_base = 0 /\ fs_size = 0 /\ fs_sign = <<>> /\ fs_mask = <<>>
    /\ mbi = DefaultMbi /\ fs_offset = 0 /\ fs_iters = 0 /\ copy_failed = FALSE
    /\ fs_result = [tag |-> "none", addr |-> 0]

InitName == NmInit /\ DcIdle /\ RdIdle /\ WrIdle /\ FpIdle /\ FsIdle
NextName == Normalize
SpecName == InitName /\ [][NextName]_vars

InitCompare == DcInit /\ NmIdle /\ RdIdle /\ WrIdle /\ FpIdle /\ FsIdle
NextCompare == Compare
SpecCompare == InitCompare /\ [][NextCompare]_vars

InitRead == RdInit /\ NmIdle /\ DcIdle /\ WrIdle /\ FpIdle /\ FsIdle
NextRead == ReadBase \/ ReadOffset \/ ReadStore
SpecRead == InitRead /\ [][NextRead]_vars

InitWrite == WrInit /\ NmIdle /\ DcIdle /\ RdIdle /\ FpIdle /\ FsIdle
NextWrite == Write
SpecWrite == InitWrite /\ [][NextWrite]_vars

InitFind == FpInit /\ NmIdle /\ DcIdle /\ RdIdle /\ WrIdle /\ FsIdle
NextFind ==
    EnumerateProcesses \/ SkipZero \/ OpenFails \/ Visit \/ Return \/ CallerCloses
SpecFind == InitFind /\ [][NextFind]_vars

InitScan == FsInit /\ NmIdle /\ DcIdle /\ RdIdle /\ WrIdle /\ FpIdle
NextScan == ScanRegion \/ ScanOverflows \/ ScanEnds
SpecScan == InitScan /\ [][NextScan]_vars

\* ------------------------------------------------------------------------
\* Properties of data_compare
\* ------------------------------------------------------------------------
ExactPositions(mask) == {i \in 1..Len(mask) : mask[i] = "x"}

\* C8: for data and sign at least as long as the mask, data_compare is true
\* exactly when data and sign agree at every position the mask flags 'x';
\* every other mask character is a wildcard, so an all-wildcard mask yields
\* true; changing data at one exact position of a matching input yields
\* false; and data shorter than the mask yields false.  (The length of the
\* mask is str::len, its length in bytes.)
C8_DataCompare ==
    dc_pc = "done" =>
        LET n == StrLen(dc_mask)
            fits == Len(dc_data) >= n /\ Len(dc_sign) >= n
        IN /\ fits => (dc_res <=> \A i \in ExactPositions(dc_mask) : dc_data[i] = dc_sign[i])
           /\ (fits /\ ExactPositions(dc_mask) = {}) => dc_res
           /\ (fits /\ dc_res) =>
                 \A i \in ExactPositions(dc_mask) :
                     \A b \in DataBytes \ {dc_data[i]} :
                         ~data_compare([dc_data EXCEPT ![i] = b], dc_sign, dc_mask)
           /\ Len(dc_data) < n => ~dc_res

\* a match decided by the mask: an exact position that agrees, and a
\* wildcard position where data and sign differ
C8_Witness ==
    /\ dc_pc = "done"
    /\ dc_res
    /\ \E i \in 1..Len(dc_mask) : dc_mask[i] = "x"
    /\ \E i \in 1..Len(dc_mask) : dc_mask[i] # "x" /\ dc_data[i] # dc_sign[i]

\* ------------------------------------------------------------------------
\* Properties of the name normaliser
\* ------------------------------------------------------------------------
\* the well-formed texts over NameBytes: 'A', 'a', U+00C9 and U+00E9
TextUnits == {<<65>>, <<97>>, <<195, 137>>, <<195, 169>>}

RECURSIVE IsText(_)
IsText(s) ==
    \/ s = <<>>
    \/ \E u \in TextUnits :
          /\ Len(u) <= Len(s)
          /\ SubSeq(s, 1, Len(u)) = u
          /\ IsText(SubSeq(s, Len(u) + 1, Len(s)))

HasNul(buf) == \E i \in 1..Len(buf) : buf[i] = 0

\* the bytes of buf before its first NUL
BeforeNul(buf) ==
    LET k == CHOOSE i \in 1..Len(buf) : buf[i] = 0 /\ \A j \in 1..(i - 1) : buf[j] # 0
    IN [i \in 1..(k - 1) |-> buf[i]]

\* only the ASCII letters change
AsciiFolded(s) == [i \in 1..Len(s) |-> IF s[i] \in 65..90 THEN s[i] + 32 ELSE s[i]]

\* C10: the normaliser fails with NoNulByte on every buffer without a NUL,
\* with InvalidUtf8 on every buffer whose bytes before the first NUL are not
\* well-formed text, and otherwise returns the bytes before the first NUL
\* with only the ASCII letters lowercased; the bytes after the first NUL
\* never affect the result.
C10_Normalizer ==
    nm_pc = "done" =>
        /\ ~HasNul(nm_buf) => nm_res.tag = "NoNulByte"
        /\ (HasNul(nm_buf) /\ ~IsText(BeforeNul(nm_buf))) => nm_res.tag = "InvalidUtf8"
        /\ (HasNul(nm_buf) /\ IsText(BeforeNul(nm_buf))) =>
              nm_res = [tag |-> "Ok", val |-> AsciiFolded(BeforeNul(nm_buf))]
        /\ HasNul(nm_buf) =>
              nm_res = to_string_lowercase(Append(BeforeNul(nm_buf), 0))

\* a name with an upper-case letter, decoded and folded, from a buffer that
\* holds other bytes after the terminator
C10_Witness ==
    /\ nm_pc = "done"
    /\ nm_res.tag = "Ok"
    /\ nm_res.val # BeforeNul(nm_buf)
    /\ \E i \in 1..Len(nm_buf) : i > Len(nm_res.val) + 1 /\ nm_buf[i] # 0

\* ------------------------------------------------------------------------
\* Properties of read
\* ------------------------------------------------------------------------
\* a(0) = mem[addr], a(k+1) = mem[(a(k) + offsets[k+1]) mod 2^w]
RECURSIVE ChainFold(_, _, _)
ChainFold(mem, a, offsets) ==
    IF offsets = <<>> THEN a
    ELSE ChainFold(mem, mem[(a + Head(offsets)) % WordMod], Tail(offsets))

\* C9: when every read succeeds, the value written to the output buffer is
\* the fold a0 = mem[addr], a(k+1) = mem[(a(k) + offsets[k]) mod 2^w] over
\* the offsets in order; for offsets [O] it is the word stored at
\* mem[addr] + O, and for no offsets it is mem[addr].
C9_PointerChain ==
    (rd_pc = "done" /\ rd_allok) =>
        /\ rd_buffer = ChainFold(rd_mem, rd_mem[rd_addr], rd_offsets)
        /\ Len(rd_offsets) = 1 =>
              rd_buffer = rd_mem[(rd_mem[rd_addr] + rd_offsets[1]) % WordMod]
        /\ rd_offsets = <<>> => rd_buffer = rd_mem[rd_addr]

\* a chain of two offsets whose first addition wraps, every read succeeding,
\* resolved to a word other than the one stored at addr
C9_Witness ==
    /\ rd_pc = "done"
    /\ rd_allok
    /\ Len(rd_offsets) = 2
    /\ rd_mem[rd_addr] + rd_offsets[1] >= WordMod
    /\ rd_buffer # rd_mem[rd_addr]

\* ------------------------------------------------------------------------
\* Properties of write
\* ------------------------------------------------------------------------
\* C5: after a write whose WriteProcessMemory succeeds, the size_of::<T>()
\* target bytes from addr on are the bytes of the value itself, and every
\* other target byte is unchanged.
C5_WritesValue ==
    (wr_pc = "done" /\ wr_ok) =>
        wr_tmem = Copied(wr_tmem0, wr_addr, wr_value)

\* ------------------------------------------------------------------------
\* Properties of find_process
\* ------------------------------------------------------------------------
Handles == 1..Len(handle_table)

\* the handles of the opened processes whose executable name decodes to the
\* lowercased target, in the order they were enumerated
MatchingHandles ==
    {h \in Handles :
        to_string_lowercase(handle_table[h].name) =
            [tag |-> "Ok", val |-> AsciiFolded(process_name)]}

OpenCalls == Len(handle_table) + Cardinality(open_failed)

\* C1: for the empty target name find_process returns ProcessNotFound,
\* whatever the processes of the system, whichever of them can be opened and
\* whatever each name fetch leaves in the buffer.  (The claim adds that no
\* enumeration and no open call is made; C1_NoEnumeration states that part.)
C1_EmptyTarget ==
    (fp_pc = "done" /\ process_name = <<>>) => fp_result = "ProcessNotFound"

\* the rest of the claim: a call with the empty target has enumerated
\* nothing and opened nothing when it returns
C1_NoEnumeration ==
    (fp_pc = "done" /\ process_name = <<>>) => (enum_calls = 0 /\ OpenCalls = 0)

\* C2: when several opened processes match, the record holds the id and
\* handle of the first match in enumeration order.
C2_FirstMatch ==
    (fp_pc = "done" /\ process_name # <<>> /\ MatchingHandles # {}) =>
        LET first == CHOOSE h \in MatchingHandles : \A g \in MatchingHandles : h <= g
        IN /\ process_data.handle = first
           /\ process_data.id = handle_table[first].pid

\* C6: when find_process returns, every handle it opened other than the one
\* in the returned record has been closed, and no handle is closed twice.
\* Stated for the calls with a non-empty target.
C6_HandlesReleased ==
    (fp_pc = "done" /\ process_name # <<>>) =>
        \A h \in Handles :
            /\ handle_table[h].closes <= 1
            /\ (fp_result # "Ok" \/ h # process_data.handle) => ~handle_table[h].open

\* C7: for a non-empty target, find_process returns Ok exactly when some
\* enumerated non-zero pid was opened and its normalised executable name is
\* the ASCII-lowercased target; the record's id is then non-zero and its id
\* and handle are those of one such process; otherwise the result is
\* ProcessNotFound.  A pid that fails to open is skipped: the loop goes on
\* to every enumerated pid.
C7_FoundIffMatch ==
    (fp_pc = "done" /\ process_name # <<>>) =>
        /\ fp_result = "Ok" <=> MatchingHandles # {}
        /\ fp_result = "Ok" =>
              /\ process_data.id # 0
              /\ process_data.handle \in MatchingHandles
              /\ handle_table[process_data.handle].pid = process_data.id
        /\ fp_result # "Ok" => fp_result = "ProcessNotFound"
        /\ \A i \in 1..Len(pid_list) :
              pid_list[i] # 0 =>
                 \/ pid_list[i] \in open_failed
                 \/ \E h \in Handles : handle_table[h].pid = pid_list[i]

\* the target "A" found in a process named "a", enumerated after a pid that
\* could not be opened
C7_Witness ==
    /\ fp_pc = "done"
    /\ fp_result = "Ok"
    /\ process_name = <<65>>
    /\ \E i \in 1..Len(pid_list) :
          /\ pid_list[i] \in open_failed
          /\ \E j \in (i + 1)..Len(pid_list) : pid_list[j] = process_data.id
    /\ handle_table[process_data.handle].name = <<97, 0>>

\* ------------------------------------------------------------------------
\* Properties of find_signature
\* ------------------------------------------------------------------------
\* the target holds, at a .. a + len(sign) - 1, bytes that match the
\* signature under the mask
TrueMatch(a) ==
    \A i \in 1..Len(fs_sign) :
        /\ a + i - 1 \in UserAddr
        /\ fs_mem[a + i - 1] # NoByte
        /\ fs_mask[i] = "x" => fs_mem[a + i - 1] = fs_sign[i]

\* the start addresses of the matching windows inside [base, base + size)
MatchesInRange ==
    {a \in ScanAddr :
        a >= fs_base /\ a + Len(fs_sign) <= fs_base + fs_size /\ TrueMatch(a)}

\* C3: whenever find_signature returns Ok(a), for any base (also one that
\* is not the start of the queried region), the target's bytes at a match
\* the signature under the mask, and no lower address from base on does.
\* Stated for the scans in which every copy succeeded.
C3_TrueAddress ==
    (fs_pc = "done" /\ fs_result.tag = "Ok" /\ ~copy_failed) =>
        /\ TrueMatch(fs_result.addr)
        /\ \A a \in fs_base..(fs_result.addr - 1) : ~TrueMatch(a)

\* C4: when no window inside [base, base + size) matches, find_signature
\* returns SignatureNotFound, also when a matching window lies beyond
\* base + size in the last queried region and also when a copy failed.
\* Stated for the scans that return (a scan that panics returns nothing)
\* and in which every copy succeeded.
C4_NotFound ==
    (fs_pc = "done" /\ fs_result.tag # "panic" /\ ~copy_failed /\ MatchesInRange = {}) =>
        fs_result.tag = "SignatureNotFound"

\* C11: find_signature always terminates: on every iteration that does not
\* return, also one whose region query fails and leaves mbi as it was, the
\* scan cursor strictly advances, so it reaches size and the call returns.
C11_CursorAdvances ==
    [][(fs_pc = "loop" /\ fs_pc' = "loop" /\ fs_iters' = fs_iters + 1)
          => fs_offset' > fs_offset]_vars

\* the bound that follows: a cursor that starts at 0 and advances on every
\* iteration is below size for at most size iterations
C11_IterationsBounded == fs_iters <= fs_size

\* C12: in find_signature the query address base + offset, the advance of
\* the cursor by the region size and the returned match address are all
\* computed modulo 2^w, so no scan aborts on an arithmetic overflow, in
\* whichever way the crate was built.
C12_NeverPanics == fs_result.tag # "panic"

\* the modules EnumProcessModules reported for the process of the returned
\* record, in enumeration order: the record's handle and id are those of
\* the last process that process_modules was called for
RecordModules == fp_mods

\* the positions of an enumeration that no later position repeats by name
LastOfName(mods) ==
    {k \in 1..Len(mods) :
        \A j \in (k + 1)..Len(mods) :
            NameOrSentinel(mods[j].name) # NameOrSentinel(mods[k].name)}

\* C13: in every record find_process returns, module_list holds only
\* modules enumerated from the process of the record's id and handle, never
\* those of another process of the same name; each key equals the
\* module_name of its entry; and of the modules of that process with the
\* same name the later-enumerated one is kept.  Stated for the calls with a
\* non-empty target.
C13_OwnModules ==
    (fp_pc = "done" /\ fp_result = "Ok" /\ process_name # <<>>) =>
        /\ \A e \in process_data.module_list :
              /\ e.key = e.value.module_name
              /\ \E k \in 1..Len(RecordModules) :
                    e.value.module_addr = RecordModules[k].addr
        /\ \A e, f \in process_data.module_list : e.key = f.key => e = f
        /\ \A k \in LastOfName(RecordModules) :
              LET name == NameOrSentinel(RecordModules[k].name)
              IN [key |-> name,
                  value |-> [module_name |-> name,
                             module_addr |-> RecordModules[k].addr,
                             module_size |-> RecordModules[k].size]]
                     \in process_data.module_list

\* the same, for the calls in which one process only bears the target name
C13_SingleMatch ==
    Cardinality(MatchingHandles) = 1 => C13_OwnModules

====
